---- MODULE Spec2Model ----
(***************************************************************************)
(* A model of DataService (graph_service.py): the two-tier city cache      *)
(* (shared key-value store, then local files, then a fetch that fills      *)
(* both), the progress observers, and the geocoding fallback chain.        *)
(*                                                                         *)
(* Strings are sequences of one-character strings, so that strip() and     *)
(* _sanitize_name() are computed the way the code computes them.           *)
(***************************************************************************)
EXTENDS Integers, Sequences, FiniteSets, TLC

\* ------------------------------------------------------------------ bounds

\* get_city_data calls started in one behaviour.
MaxCalls == 2
\* add_progress_callback registrations in one behaviour.
MaxCallbacks == 1
\* address_to_coords calls started in one behaviour.
MaxGeoCalls == 1

\* _sanitize_name keeps at most this many characters ([:100]).
MaxKeyLen == 100

\* ----------------------------------------------------------------- strings

WordChars == {"a", "b", "_"}
SpaceChars == {" "}

Min(a, b) == IF a < b THEN a ELSE b

RECURSIVE lstrip(_, _)
lstrip(s, chars) ==
    IF s # <<>> /\ Head(s) \in chars THEN lstrip(Tail(s), chars) ELSE s

RECURSIVE rstrip(_, _)
rstrip(s, chars) ==
    IF s # <<>> /\ s[Len(s)] \in chars THEN rstrip(SubSeq(s, 1, Len(s) - 1), chars) ELSE s

\* Mutant of strip: the name is used as given.
strip_nothing(s) == s

\* str.strip(): leading and trailing whitespace removed.
strip(s) == rstrip(lstrip(s, SpaceChars), SpaceChars)

\* re.sub(r'[^\w\s-]', '', name)
KeepChar(ch) == ch \in WordChars \/ ch \in SpaceChars \/ ch = "-"
drop_non_word(s) == SelectSeq(s, KeepChar)

\* re.sub(r'[-\s]+', '_', name): each maximal run of hyphens and whitespace
\* becomes one underscore.
RECURSIVE collapse_separators(_)
collapse_separators(s) ==
    IF s = <<>> THEN <<>>
    ELSE IF Head(s) \in SpaceChars \cup {"-"}
         THEN <<"_">> \o collapse_separators(lstrip(s, SpaceChars \cup {"-"}))
         ELSE <<Head(s)>> \o collapse_separators(Tail(s))

\* Mutant of sanitize_name: the second re.sub is missing, so hyphens and
\* whitespace stay as they are.
sanitize_name_uncollapsed(name) ==
    LET stripped == rstrip(lstrip(drop_non_word(name), {"_"}), {"_"})
    IN  SubSeq(stripped, 1, Min(Len(stripped), MaxKeyLen))

sanitize_name(name) ==
    LET collapsed == collapse_separators(drop_non_word(name))
        stripped == rstrip(lstrip(collapsed, {"_"}), {"_"})
    IN  SubSeq(stripped, 1, Min(Len(stripped), MaxKeyLen))

\* os.path.join(cache_dir, f"{key}.pkl") and f"drone_planner:city:{key}"
cache_file_of(name) == <<"cache_data/">> \o sanitize_name(name) \o <<".pkl">>
redis_key_of(name) == <<"drone_planner:city:">> \o sanitize_name(name)

\* The city names requests are made with: one with surrounding whitespace,
\* and two different names that sanitize to the same key.
CityNames == { <<" ", "a", "b">>, <<"a", "-", "b">>, <<"a", " ", "b", "!">> }

\* The names of the model that have one sanitized key.
SharedKeyNames == { <<"a", "-", "b">>, <<"a", " ", "b", "!">> }

\* The city whose cache entries an earlier run may have left.
ObsCity == <<"a", "-", "b">>

Paths == { cache_file_of(strip(c)) : c \in CityNames }
Keys == { redis_key_of(strip(c)) : c \in CityNames }

\* -------------------------------------------------------------- data model

\* The graphs the external road-network source can hand back (an osmnx graph:
\* a node set and an edge set), the empty one included.
G0 == [nodes |-> {}, edges |-> {}]
G1 == [nodes |-> {1, 2}, edges |-> {<<1, 2>>}]
G2 == [nodes |-> {1, 2, 3}, edges |-> {<<1, 2>>, <<2, 3>>, <<3, 1>>}]

\* Python's None, where a graph is expected.
None == [none |-> TRUE]

\* ox.graph_from_place either raises or returns a graph.
GraphOutcomes ==
    {[raises |-> TRUE, graph |-> G0]} \cup {[raises |-> FALSE, graph |-> g] : g \in {G0, G1, G2}}

\* ox.features_from_place either raises or returns a feature collection.
BuildingOutcomes ==
    {[raises |-> TRUE, features |-> {}], [raises |-> FALSE, features |-> {"b1", "b2"}]}

\* Mutant of make_bundle: the buildings are counted before they are loaded.
make_bundle_stale(road_graph, buildings, no_fly_zones, city_name, timestamp) ==
    [ road_graph |-> road_graph,
      buildings |-> buildings,
      no_fly_zones |-> no_fly_zones,
      city_name |-> city_name,
      timestamp |-> timestamp,
      stats |-> [ nodes |-> Cardinality(road_graph.nodes),
                  edges |-> Cardinality(road_graph.edges),
                  buildings |-> 0 ] ]

\* The dict built at lines 102-113.
make_bundle(road_graph, buildings, no_fly_zones, city_name, timestamp) ==
    [ road_graph |-> road_graph,
      buildings |-> buildings,
      no_fly_zones |-> no_fly_zones,
      city_name |-> city_name,
      timestamp |-> timestamp,
      stats |-> [ nodes |-> Cardinality(road_graph.nodes),
                  edges |-> Cardinality(road_graph.edges),
                  buildings |-> Cardinality(buildings) ] ]

\* Placeholder of the bundle's shape for "no bundle".
NoBundle ==
    [ road_graph |-> G0, buildings |-> {}, no_fly_zones |-> <<>>, city_name |-> <<>>,
      timestamp |-> 0, stats |-> [nodes |-> 0, edges |-> 0, buildings |-> 0] ]

\* _get_no_fly_zones: a stub that returns the empty list.
get_no_fly_zones(city_name) == <<>>

\* pickle.dumps: the fields in the order the dict holds them, between a
\* protocol header and the STOP opcode.
pickle_dumps(d) ==
    << "PROTO", d.road_graph, d.buildings, d.no_fly_zones, d.city_name, d.timestamp,
       d.stats, "STOP" >>

\* pickle.load(s) succeeds on a complete stream only.
pickle_ok(blob) == Len(blob) = 8 /\ blob[1] = "PROTO" /\ blob[8] = "STOP"

\* Mutant of pickle_loads: two fields are read from each other's place.
pickle_loads_misaligned(blob) ==
    [ road_graph |-> blob[2], buildings |-> blob[3], no_fly_zones |-> blob[5],
      city_name |-> blob[4], timestamp |-> blob[6], stats |-> blob[7] ]

pickle_loads(blob) ==
    [ road_graph |-> blob[2], buildings |-> blob[3], no_fly_zones |-> blob[4],
      city_name |-> blob[5], timestamp |-> blob[6], stats |-> blob[7] ]

\* A file or key is either absent, or holds a byte stream: the empty stream of a
\* file just opened for writing, a stream that is not a pickle, or a pickle.
Absent == [exists |-> FALSE, content |-> <<>>]
Holding(content) == [exists |-> TRUE, content |-> content]
CorruptContent == <<"garbage">>

\* Exceptions: a type and the text of the message.
NoExc == [type |-> "none", msg |-> <<>>]
RoadNetworkError(city_name) ==
    [type |-> "Exception", msg |-> <<"road network not loaded for city: ">> \o city_name]
FileNotFoundError(path) == [type |-> "FileNotFoundError", msg |-> path]
UnpicklingError == [type |-> "UnpicklingError", msg |-> <<>>]
RedisError == [type |-> "RedisError", msg |-> <<>>]
\* What a failing observer raises.
ObserverError == [type |-> "ObserverError", msg |-> <<>>]

\* A progress event, as _update_progress passes it to the observers.
Event(stage, percentage, message) ==
    [stage |-> stage, percentage |-> percentage, message |-> message]

EvCacheRedis == Event("cache", 100, <<"from Redis">>)
EvCacheDisk == Event("cache", 100, <<"from cache">>)
\* Mutant of EvDownload: the last milestone is announced where the one before
\* it belongs.
EvDownload_early(pct) == Event("download", IF pct = 90 THEN 100 ELSE pct, <<"download">>)

EvDownload(pct) == Event("download", pct, <<"download">>)
EvError(e) == Event("error", 0, <<"error: ">> \o e.msg)

\* No _update_progress call yet.
NoNotify ==
    [event |-> Event("none", 0, <<>>), callbacks |-> <<>>, invoked |-> <<>>, raised |-> FALSE]

\* The values of the network_type query parameter.
NetworkTypes == {"drive", "walk"}

\* ------------------------------------------------------------------- state

VARIABLES
    redis,               \* self._redis: "None" or "conn"
    ping_failed,         \* whether the startup ping raised (never changes)
    redis_store,         \* the shared store: key -> Absent or Holding(bytes)
    files,               \* the cache directory: path -> Absent or Holding(bytes)
    progress_callbacks,  \* self.progress_callbacks: observers, in registration order
    received,            \* observer -> the events it was called with
    clock,               \* what time.time() returns next
    frame,               \* thread -> the locals and position of its current call
    calls,               \* number of get_city_data calls started
    last_dumped,         \* path -> the bundle pickle.dump last wrote there, and all
                         \* the bundles pickle.dump was given for that path
    geo                  \* the locals and position of the address_to_coords call

vars ==
    << redis, ping_failed, redis_store, files, progress_callbacks, received, clock,
       frame, calls, last_dumped, geo >>

\* Observer 0 is the one registered before the behaviour starts, if there is
\* one; the others are numbered as they register.
Observers == 0..MaxCallbacks

IdleFrame ==
    [ pc |-> "idle", op |-> "none",
      city_name |-> <<>>, normalized_name |-> <<>>, cache_file |-> <<>>, redis_key |-> <<>>,
      road_graph |-> G0, data |-> NoBundle,
      exc |-> NoExc, ret |-> NoBundle,
      linked |-> FALSE,        \* the open file handle still names cache_file
      events |-> <<>>,         \* the _update_progress calls of this call
      source |-> "none",       \* what served the call: redis, disk or download
      downloads |-> 0,         \* _download_city_data invocations of this call
      disk_ops |-> 0,          \* local storage operations of this call
      redis_ops |-> 0,         \* shared store operations of this call
      redis_blob |-> <<>>,     \* what redis.get returned
      load_failed |-> FALSE,   \* _load_from_cache raised in this call
      cold |-> FALSE,          \* neither tier held the city when the call started
      graph_outcome |-> [raises |-> FALSE, graph |-> G0],  \* of ox.graph_from_place
      before |-> [files |-> <<>>, redis_store |-> <<>>],   \* the tiers when the fetch began
      redis_saved |-> FALSE,   \* redis.set returned without raising
      set_raised |-> FALSE,    \* redis.set raised
      observer_raised |-> FALSE,  \* an observer raised during this call
      swallowed |-> FALSE,     \* the handler of line 59 caught what an observer raised
      last_notify |-> NoNotify,   \* the last _update_progress call of this call
      endpoint |-> "none",     \* the app.py handler that made the call, if one did
      observer |-> 0,          \* the observer that handler registered
      status |-> 0,            \* the status of the response, once there is one
      progress |-> <<>>,       \* the response's "progress" list
      detail |-> <<>> ]        \* the response's error detail

Threads == DOMAIN frame
Resting == {"idle", "returned", "raised"}

InitCache(threads) ==
    /\ redis \in {"None", "conn"}
    /\ ping_failed = (redis = "None")
    /\ redis_store \in [Keys -> {Absent, Holding(CorruptContent)}]
    /\ files \in [Paths -> {Absent, Holding(CorruptContent)}]
    /\ progress_callbacks = <<>>
    /\ received = [o \in Observers |-> <<>>]
    /\ clock = 1
    /\ frame = [t \in threads |-> IdleFrame]
    /\ calls = 0
    /\ last_dumped = [p \in Paths |-> [valid |-> FALSE, bundle |-> NoBundle, dumped |-> {}]]

\* ------------------------------------------------------ progress reporting

\* The notifications an observer may raise on, as (stage, percentage).
FailPoints ==
    { <<"cache", 100>>, <<"download", 0>>, <<"download", 20>>, <<"download", 50>>,
      <<"download", 80>>, <<"download", 90>>, <<"download", 100>>, <<"error", 0>> }

\* An observer is known by the notifications it raises on. The one a request
\* handler registers appends the event to a list and raises on none.
Collector == {}

\* The observers of the model: the collector, observers that raise at one
\* notification, and one that raises at a milestone and again when the error
\* is reported.
FailureKinds ==
    {Collector} \cup {{p} : p \in FailPoints} \cup {{<<"download", 50>>, <<"error", 0>>}}

\* The registrations made so far in the behaviour.
Registered == Cardinality({ i \in 1..Len(progress_callbacks) : progress_callbacks[i].id > 0 })

\* add_progress_callback: appends the observer.
add_progress_callback(t, fails_on) ==
    /\ frame[t].pc \in Resting
    /\ Registered < MaxCallbacks
    /\ progress_callbacks' =
          Append(progress_callbacks, [id |-> Registered + 1, fails_on |-> fails_on])
    /\ UNCHANGED << redis, ping_failed, redis_store, files, received, clock, frame, calls,
                    last_dumped, geo >>

Range(s) == { s[i] : i \in 1..Len(s) }

\* The loop of lines 43-44: the callbacks are called one after the other with
\* the event; the first that raises ends the loop.
RECURSIVE call_observers(_, _, _)
call_observers(callbacks, ev, st) ==
    IF callbacks = <<>> THEN st
    ELSE LET callback == Head(callbacks)
             called == [st EXCEPT !.received[callback.id] = Append(@, ev),
                                  !.invoked = Append(@, callback.id)]
         IN  IF <<ev.stage, ev.percentage>> \in callback.fails_on
             THEN [called EXCEPT !.raised = TRUE]
             ELSE call_observers(Tail(callbacks), ev, called)

\* Reverse of a sequence.
Reverse(s) == [i \in 1..Len(s) |-> s[Len(s) + 1 - i]]

\* Mutant of update_progress: the observers are called last-registered first.
update_progress_reversed(recv, ev) ==
    call_observers(Reverse(progress_callbacks), ev,
                   [ received |-> recv, invoked |-> <<>>, raised |-> FALSE,
                     event |-> ev, callbacks |-> progress_callbacks ])

\* _update_progress(stage, percentage, message): what the observers received,
\* which of them were invoked, in order, and whether one raised.
update_progress(recv, ev) ==
    call_observers(progress_callbacks, ev,
                   [ received |-> recv, invoked |-> <<>>, raised |-> FALSE,
                     event |-> ev, callbacks |-> progress_callbacks ])

\* The frame after the call's _update_progress calls evs.
Reported(f, evs) == [f EXCEPT !.events = @ \o evs]

\* _update_progress called for each event of evs in turn, up to the first call
\* an observer's exception leaves: the calls made, and the last of them.
RECURSIVE report(_, _, _)
report(recv, evs, made) ==
    LET r == update_progress(recv, Head(evs))
    IN  IF r.raised \/ Len(evs) = 1
        THEN [received |-> r.received, count |-> made + 1, raised |-> r.raised, last |-> r]
        ELSE report(r.received, Tail(evs), made + 1)

\* The caller's frame and the observers' lists after those calls.
Notified(f, recv, evs) ==
    LET r == report(recv, evs, 0)
    IN  [ frame |-> [ Reported(f, SubSeq(evs, 1, r.count)) EXCEPT
                        !.last_notify = [ event |-> r.last.event,
                                          callbacks |-> r.last.callbacks,
                                          invoked |-> r.last.invoked,
                                          raised |-> r.last.raised ],
                        !.observer_raised = @ \/ r.raised ],
          received |-> r.received,
          raised |-> r.raised,
          count |-> r.count ]

\* ------------------------------------------------------------ get_city_data

\* Mutant of redis_enabled: the None test is missing.
redis_always_enabled == TRUE

\* `self._redis is not None`
redis_enabled == redis # "None"

\* os.remove(path): the name goes; a writer that has the file open keeps writing
\* to a file no name leads to.
Unlinked(fr, path) ==
    [ u \in DOMAIN fr |->
        IF fr[u].pc = "dump" /\ fr[u].cache_file = path THEN [fr[u] EXCEPT !.linked = FALSE]
        ELSE fr[u] ]

Returned(f, bundle, source) ==
    [f EXCEPT !.pc = "returned", !.ret = bundle, !.source = source]

Raised(f, e) == [f EXCEPT !.pc = "raised", !.exc = e]

\* Lines 46-50: the locals of a call that has derived its path and key.
entered(c) ==
    [ IdleFrame EXCEPT
        !.pc = "redis_get", !.op = "get_city_data", !.city_name = c,
        !.normalized_name = strip(c),
        !.cache_file = cache_file_of(strip(c)),
        !.redis_key = redis_key_of(strip(c)),
        !.cold = /\ ~files[cache_file_of(strip(c))].exists
                 /\ ~redis_store[redis_key_of(strip(c))].exists ]

\* get_city_data(city_name), called on the service directly.
get_city_data(t, c) ==
    /\ frame[t].pc \in Resting
    /\ calls < MaxCalls
    /\ calls' = calls + 1
    /\ frame' = [frame EXCEPT ![t] = entered(c)]
    /\ UNCHANGED << redis, ping_failed, redis_store, files, progress_callbacks, received,
                    clock, last_dumped, geo >>

\* Mutant of redis_hit: the return of line 58 is missing, so a hit is reported
\* and the lookup goes on.
redis_hit_falls_through(g, blob) == [g EXCEPT !.pc = "exists"]

\* Lines 57-60, after _update_progress: pickle.loads(blob) is returned; when it
\* raises, the handler logs and the lookup goes on with the local file.
redis_hit(g, blob) ==
    IF pickle_ok(blob) THEN Returned(g, pickle_loads(blob), "redis") ELSE [g EXCEPT !.pc = "exists"]

\* Lines 53-60: the shared store is tried first. A hit is reported and returned;
\* a miss, a read that raises, or a blob that does not unpickle falls through.
\* The notification of line 57 is inside the try: what an observer raises there
\* is caught at line 59 like a failed read, and the lookup goes on.
TryRedis(t) ==
    /\ frame[t].pc = "redis_get"
    /\ \/ /\ ~redis_enabled
          /\ frame' = [frame EXCEPT ![t].pc = "exists"]
          /\ UNCHANGED received
       \/ /\ redis_enabled
          /\ \E get_raises \in BOOLEAN :
               LET f == [frame[t] EXCEPT !.redis_ops = @ + 1]
                   blob == redis_store[frame[t].redis_key].content
                   n == Notified([f EXCEPT !.redis_blob = blob], received, <<EvCacheRedis>>)
               IN  IF get_raises \/ blob = <<>>
                   THEN /\ frame' = [frame EXCEPT ![t] = [f EXCEPT !.pc = "exists"]]
                        /\ UNCHANGED received
                   ELSE /\ received' = n.received
                        /\ frame' = [frame EXCEPT ![t] =
                              IF n.raised
                              THEN [n.frame EXCEPT !.pc = "exists", !.swallowed = TRUE]
                              ELSE redis_hit(n.frame, blob)]
    /\ UNCHANGED << redis, ping_failed, redis_store, files, progress_callbacks, clock, calls,
                    last_dumped, geo >>

\* Lines 62-63: os.path.exists(cache_file); a file that exists is reported as a
\* cache hit before it is read. The notification is outside any try.
CheckCacheFile(t) ==
    /\ frame[t].pc = "exists"
    /\ LET f == [frame[t] EXCEPT !.disk_ops = @ + 1]
           n == Notified(f, received, <<EvCacheDisk>>)
       IN  IF files[f.cache_file].exists
           THEN /\ received' = n.received
                /\ frame' = [frame EXCEPT ![t] =
                      IF n.raised THEN Raised(n.frame, ObserverError)
                      ELSE [n.frame EXCEPT !.pc = "load"]]
           ELSE /\ frame' = [frame EXCEPT ![t] = [f EXCEPT !.pc = "download"]]
                /\ UNCHANGED received
    /\ UNCHANGED << redis, ping_failed, redis_store, files, progress_callbacks, clock, calls,
                    last_dumped, geo >>

\* _load_from_cache, lines 239-241: open the file and unpickle it.
load_from_cache(t) ==
    /\ frame[t].pc = "load"
    /\ LET f == [frame[t] EXCEPT !.disk_ops = @ + 1]
           file == files[f.cache_file]
       IN  frame' = [frame EXCEPT ![t] =
              IF ~file.exists
              THEN [f EXCEPT !.pc = "load_except", !.exc = FileNotFoundError(f.cache_file),
                             !.load_failed = TRUE]
              ELSE IF pickle_ok(file.content)
              THEN Returned(f, pickle_loads(file.content), "disk")
              ELSE [f EXCEPT !.pc = "load_except", !.exc = UnpicklingError,
                             !.load_failed = TRUE]]
    /\ UNCHANGED << redis, ping_failed, redis_store, files, progress_callbacks, received,
                    clock, calls, last_dumped, geo >>

\* _load_from_cache, lines 242-245: on any failure the file is removed if it
\* exists, and the exception is raised again.
load_from_cache_except(t) ==
    /\ frame[t].pc = "load_except"
    /\ LET path == frame[t].cache_file
           f == [frame[t] EXCEPT !.disk_ops = @ + 1, !.pc = "remove"]
       IN  IF files[path].exists
           THEN /\ files' = [files EXCEPT ![path] = Absent]
                /\ frame' = Unlinked([frame EXCEPT ![t] = f], path)
           ELSE /\ frame' = [frame EXCEPT ![t] = f]
                /\ UNCHANGED files
    /\ UNCHANGED << redis, ping_failed, redis_store, progress_callbacks, received, clock,
                    calls, last_dumped, geo >>

\* Lines 66-68: get_city_data's handler logs and calls os.remove(cache_file),
\* which raises FileNotFoundError when the file is not there.
RemoveCacheFile(t) ==
    /\ frame[t].pc = "remove"
    /\ LET path == frame[t].cache_file
           f == [frame[t] EXCEPT !.disk_ops = @ + 1]
       IN  IF files[path].exists
           THEN /\ files' = [files EXCEPT ![path] = Absent]
                /\ frame' = Unlinked([frame EXCEPT ![t] = [f EXCEPT !.pc = "download", !.exc = NoExc]],
                                     path)
           ELSE /\ frame' = [frame EXCEPT ![t] = Raised(f, FileNotFoundError(path))]
                /\ UNCHANGED files
    /\ UNCHANGED << redis, ping_failed, redis_store, progress_callbacks, received, clock,
                    calls, last_dumped, geo >>

\* ------------------------------------------------------ _download_city_data

\* Mutant of no_road_graph: the zero-node test is missing.
no_road_graph_raises_only(outcome) == outcome.raises

\* Line 89: `road_graph is None or len(road_graph.nodes) == 0`, road_graph being
\* None exactly when ox.graph_from_place raised.
no_road_graph(outcome) == outcome.raises \/ Cardinality(outcome.graph.nodes) = 0

\* The frame when control reaches the handler of line 128 with exception e.
Caught(f, e) == [f EXCEPT !.pc = "download_except", !.exc = e]

\* Lines 73-92: the first milestone (outside the try), the second, the
\* road-network call, and either the error raised at line 90 or the third
\* milestone. What an observer raises at the first milestone leaves the call;
\* what it raises at the others reaches the handler of line 128.
FetchRoadGraph(t) ==
    /\ frame[t].pc = "download"
    /\ \E outcome \in GraphOutcomes :
         LET f == [frame[t] EXCEPT !.downloads = @ + 1,
                                   !.before = [files |-> files, redis_store |-> redis_store]]
             n == Notified(f, received, <<EvDownload(0), EvDownload(20)>>)
             g == [n.frame EXCEPT !.graph_outcome = outcome]
             m == Notified([g EXCEPT !.road_graph = outcome.graph], n.received,
                           <<EvDownload(50)>>)
         IN  IF n.raised
             THEN /\ received' = n.received
                  /\ frame' = [frame EXCEPT ![t] =
                        IF n.count = 1 THEN Raised(n.frame, ObserverError)
                        ELSE Caught(n.frame, ObserverError)]
             ELSE IF no_road_graph(outcome)
             THEN /\ received' = n.received
                  /\ frame' = [frame EXCEPT ![t] = Caught(g, RoadNetworkError(f.normalized_name))]
             ELSE /\ received' = m.received
                  /\ frame' = [frame EXCEPT ![t] =
                        IF m.raised THEN Caught(m.frame, ObserverError)
                        ELSE [m.frame EXCEPT !.pc = "buildings"]]
    /\ UNCHANGED << redis, ping_failed, redis_store, files, progress_callbacks, clock, calls,
                    last_dumped, geo >>

\* Lines 93-115: the buildings (an empty collection when the call raises), a
\* milestone, the no-fly zones, the bundle with its timestamp and stats, and a
\* milestone.
FetchBuildings(t) ==
    /\ frame[t].pc = "buildings"
    /\ \E outcome \in BuildingOutcomes :
         LET f == frame[t]
             buildings == IF outcome.raises THEN {} ELSE outcome.features
             data == make_bundle(f.road_graph, buildings, get_no_fly_zones(f.normalized_name),
                                 f.normalized_name, clock)
             n == Notified(f, received, <<EvDownload(80), EvDownload(90)>>)
         IN  /\ received' = n.received
             /\ IF n.raised /\ n.count = 1
                THEN /\ frame' = [frame EXCEPT ![t] = Caught(n.frame, ObserverError)]
                     /\ UNCHANGED clock
                ELSE /\ frame' = [frame EXCEPT ![t] =
                           IF n.raised THEN Caught([n.frame EXCEPT !.data = data], ObserverError)
                           ELSE [n.frame EXCEPT !.pc = "open", !.data = data]]
                     /\ clock' = clock + 1
    /\ UNCHANGED << redis, ping_failed, redis_store, files, progress_callbacks, calls,
                    last_dumped, geo >>

\* Line 116: open(cache_file, 'wb') creates the file or truncates the one there.
OpenCacheFile(t) ==
    /\ frame[t].pc = "open"
    /\ files' = [files EXCEPT ![frame[t].cache_file] = Holding(<<>>)]
    /\ frame' = [frame EXCEPT ![t].pc = "dump", ![t].linked = TRUE, ![t].disk_ops = @ + 1]
    /\ UNCHANGED << redis, ping_failed, redis_store, progress_callbacks, received, clock,
                    calls, last_dumped, geo >>

\* Line 117 and the end of the with block: the pickle is written and the file
\* closed. The bytes reach the file the handle was opened on.
DumpCacheFile(t) ==
    /\ frame[t].pc = "dump"
    /\ LET f == frame[t]
       IN  IF f.linked
           THEN /\ files' = [files EXCEPT ![f.cache_file] = Holding(pickle_dumps(f.data))]
                /\ last_dumped' = [last_dumped EXCEPT ![f.cache_file] =
                                      [ valid |-> TRUE, bundle |-> f.data,
                                        dumped |-> @.dumped \cup {f.data} ]]
           ELSE /\ last_dumped' = [last_dumped EXCEPT ![f.cache_file].dumped = @ \cup {f.data}]
                /\ UNCHANGED files
    /\ frame' = [frame EXCEPT ![t].pc = "redis_set", ![t].linked = FALSE, ![t].disk_ops = @ + 1]
    /\ UNCHANGED << redis, ping_failed, redis_store, progress_callbacks, received, clock,
                    calls, geo >>

\* Mutant of redis_set_failed: the write is not wrapped in a try, so its
\* exception reaches the handler of line 128.
redis_set_fatal(f) == Caught([f EXCEPT !.set_raised = TRUE], RedisError)

\* Lines 122-123: a write that raises is logged and the fetch goes on.
redis_set_failed(f) == [f EXCEPT !.set_raised = TRUE, !.pc = "done"]

\* Mutant of redis_value: the bundle is stamped again before it is sent.
redis_value_restamped(data) == pickle_dumps([data EXCEPT !.timestamp = @ + 1])

\* Line 121: pickle.dumps(data), the bytes sent to the shared store.
redis_value(data) == pickle_dumps(data)

\* Lines 119-123: the best-effort write to the shared store.
SaveToRedis(t) ==
    /\ frame[t].pc = "redis_set"
    /\ \/ /\ ~(redis_enabled /\ frame[t].redis_key # <<>>)
          /\ frame' = [frame EXCEPT ![t].pc = "done"]
          /\ UNCHANGED redis_store
       \/ /\ redis_enabled /\ frame[t].redis_key # <<>>
          /\ \E set_raises \in BOOLEAN :
               LET f == [frame[t] EXCEPT !.redis_ops = @ + 1]
               IN  IF set_raises
                   THEN /\ frame' = [frame EXCEPT ![t] = redis_set_failed(f)]
                        /\ UNCHANGED redis_store
                   ELSE /\ frame' = [frame EXCEPT ![t] =
                              [f EXCEPT !.pc = "done", !.redis_saved = TRUE]]
                        /\ redis_store' = [redis_store EXCEPT ![f.redis_key] =
                                              Holding(redis_value(f.data))]
    /\ UNCHANGED << redis, ping_failed, files, progress_callbacks, received, clock, calls,
                    last_dumped, geo >>

\* Lines 125-126: the last milestone and the return of the bundle.
FinishDownload(t) ==
    /\ frame[t].pc = "done"
    /\ LET n == Notified(frame[t], received, <<EvDownload(100)>>)
       IN  /\ received' = n.received
           /\ frame' = [frame EXCEPT ![t] =
                 IF n.raised THEN Caught(n.frame, ObserverError)
                 ELSE Returned(n.frame, n.frame.data, "download")]
    /\ UNCHANGED << redis, ping_failed, redis_store, files, progress_callbacks, clock, calls,
                    last_dumped, geo >>

\* Lines 128-131: the error is reported and raised again. What an observer
\* raises at this notification leaves the call in its place.
DownloadExcept(t) ==
    /\ frame[t].pc = "download_except"
    /\ LET n == Notified(frame[t], received, <<EvError(frame[t].exc)>>)
       IN  /\ received' = n.received
           /\ frame' = [frame EXCEPT ![t] =
                 Raised(n.frame, IF n.raised THEN ObserverError ELSE frame[t].exc)]
    /\ UNCHANGED << redis, ping_failed, redis_store, files, progress_callbacks, clock, calls,
                    last_dumped, geo >>

\* -------------------------------------------------------- address_to_coords

\* A number is a fraction num/den with den a power of ten, as the decimal
\* notation gives it; a coordinate pair is <<latitude, longitude>>.
Num(n, d) == [num |-> n, den |-> d]
Leq(x, y) == x.num * y.den <= y.num * x.den
NumEq(x, y) == x.num * y.den = y.num * x.den
NoCoords == <<Num(0, 1), Num(0, 1)>>

Digits == <<"0", "1", "2", "3", "4", "5", "6", "7", "8", "9">>
IsDigit(ch) == \E i \in 1..Len(Digits) : Digits[i] = ch
DigitValue(ch) == (CHOOSE i \in 1..Len(Digits) : Digits[i] = ch) - 1

RECURSIVE digits_value(_)
digits_value(s) ==
    IF s = <<>> THEN 0
    ELSE digits_value(SubSeq(s, 1, Len(s) - 1)) * 10 + DigitValue(s[Len(s)])

RECURSIVE pow10(_)
pow10(n) == IF n = 0 THEN 1 ELSE 10 * pow10(n - 1)

contains(s, ch) == \E i \in 1..Len(s) : s[i] = ch
index_of(s, ch) == CHOOSE i \in 1..Len(s) : s[i] = ch /\ \A j \in 1..(i - 1) : s[j] # ch

\* str.split(sep)
RECURSIVE split(_, _)
split(s, sep) ==
    IF ~contains(s, sep) THEN <<s>>
    ELSE <<SubSeq(s, 1, index_of(s, sep) - 1)>>
            \o split(SubSeq(s, index_of(s, sep) + 1, Len(s)), sep)

endswith(s, suffix) ==
    Len(s) >= Len(suffix) /\ SubSeq(s, Len(s) - Len(suffix) + 1, Len(s)) = suffix

\* `sub in s`
is_substring(sub, s) ==
    \E i \in 1..(Len(s) - Len(sub) + 1) : SubSeq(s, i, i + Len(sub) - 1) = sub

\* float(): an optional sign, then digits with at most one decimal point and at
\* least one digit. (Exponents, inf and nan do not occur in the model's inputs.)
unsigned_part(s) == IF s # <<>> /\ Head(s) \in {"-", "+"} THEN Tail(s) ELSE s

float_ok(s) ==
    LET body == unsigned_part(s)
        digits == SelectSeq(body, IsDigit)
        points == SelectSeq(body, LAMBDA ch : ch = ".")
    IN  /\ Len(digits) >= 1
        /\ Len(points) <= 1
        /\ Len(digits) + Len(points) = Len(body)

float_value(s) ==
    LET body == unsigned_part(s)
        digits == SelectSeq(body, IsDigit)
        decimals == IF contains(body, ".") THEN Len(body) - index_of(body, ".") ELSE 0
        sign == IF s # <<>> /\ Head(s) = "-" THEN -1 ELSE 1
    IN  Num(sign * digits_value(digits), pow10(decimals))

\* Mutant of is_lat_lon: the ends of the ranges are left out.
is_lat_lon_strict(coords) ==
    /\ Len(coords) = 2
    /\ ~Leq(coords[1], Num(-90, 1)) /\ ~Leq(Num(90, 1), coords[1])
    /\ ~Leq(coords[2], Num(-180, 1)) /\ ~Leq(Num(180, 1), coords[2])

\* Line 147: two values, a latitude and a longitude in range.
is_lat_lon(coords) ==
    /\ Len(coords) = 2
    /\ Leq(Num(-90, 1), coords[1]) /\ Leq(coords[1], Num(90, 1))
    /\ Leq(Num(-180, 1), coords[2]) /\ Leq(coords[2], Num(180, 1))

\* Lines 144-150: the address read as "lat, lon"; ok is FALSE when the address
\* has no comma, a part is no number (ValueError), or the check of line 147 fails.
parse_coords(address) ==
    LET parts == split(address, ",")
        stripped == [i \in 1..Len(parts) |-> strip(parts[i])]
        coords == [i \in 1..Len(parts) |-> float_value(stripped[i])]
    IN  IF /\ contains(address, ",")
           /\ \A i \in 1..Len(parts) : float_ok(stripped[i])
           /\ is_lat_lon(coords)
        THEN [ok |-> TRUE, coords |-> coords]
        ELSE [ok |-> FALSE, coords |-> NoCoords]

\* Cyrillic letters are written as one-character tokens "cyr_<letter>".
Rossiya == <<"cyr_R", "cyr_o", "cyr_s", "cyr_s", "cyr_i", "cyr_ya">>
RF == <<"cyr_R", "cyr_F">>
Russia == <<"R", "u", "s", "s", "i", "a">>
CommaSpace == <<",", " ">>

\* Lines 153-173: the query variants, and the city name the validation will use.
strip_russia(city_name) ==
    IF endswith(city_name, CommaSpace \o Russia)
    THEN strip(SubSeq(city_name, 1, Len(city_name) - 8))
    ELSE city_name

city_given(city_name) == city_name # <<>> /\ strip(city_name) # <<>>

local_city_name(city_name) ==
    IF city_given(city_name) THEN strip_russia(strip(city_name)) ELSE city_name

search_variants_of(address, city_name) ==
    IF city_given(city_name)
    THEN LET base == address \o CommaSpace \o local_city_name(city_name)
         IN  << base, base \o CommaSpace \o Rossiya, base \o CommaSpace \o Russia,
                base \o CommaSpace \o RF >>
    ELSE << address, address \o CommaSpace \o Rossiya, address \o CommaSpace \o Russia,
            address \o CommaSpace \o RF >>

\* self.geolocators, in the order the dict was built.
geolocators == <<"nominatim", "nominatim_ru">>

\* str.lower() on the capitals the model's names use.
lower_char(ch) ==
    CASE ch = "V" -> "v" [] ch = "R" -> "r" [] ch = "O" -> "o" [] ch = "M" -> "m"
      [] ch = "L" -> "l" [] OTHER -> ch
lower(s) == [i \in 1..Len(s) |-> lower_char(s[i])]

Box(lat_lo, lat_hi, lon_lo, lon_hi) ==
    [lat |-> <<Num(lat_lo, 10), Num(lat_hi, 10)>>, lon |-> <<Num(lon_lo, 10), Num(lon_hi, 10)>>]

\* Lines 214-223: the table of city boxes, in the order of the dict.
city_bounds ==
    << [key |-> <<"cyr_v", "cyr_o", "cyr_l", "cyr_g", "cyr_o", "cyr_g", "cyr_r", "cyr_a", "cyr_d">>,
        bounds |-> Box(485, 490, 440, 450)],
       [key |-> <<"v", "o", "l", "g", "o", "g", "r", "a", "d">>,
        bounds |-> Box(485, 490, 440, 450)],
       [key |-> <<"cyr_m", "cyr_o", "cyr_s", "cyr_k", "cyr_v", "cyr_a">>,
        bounds |-> Box(555, 559, 373, 379)],
       [key |-> <<"m", "o", "s", "c", "o", "w">>,
        bounds |-> Box(555, 559, 373, 379)],
       [key |-> <<"cyr_s", "cyr_a", "cyr_n", "cyr_k", "cyr_t", "-", "cyr_p", "cyr_e", "cyr_t",
                  "cyr_e", "cyr_r", "cyr_b", "cyr_u", "cyr_r", "cyr_g">>,
        bounds |-> Box(598, 601, 300, 307)],
       [key |-> <<"s", "t", " ", "p", "e", "t", "e", "r", "s", "b", "u", "r", "g">>,
        bounds |-> Box(598, 601, 300, 307)],
       [key |-> <<"s", "t", ".", " ", "p", "e", "t", "e", "r", "s", "b", "u", "r", "g">>,
        bounds |-> Box(598, 601, 300, 307)],
       [key |-> <<"p", "e", "t", "e", "r", "s", "b", "u", "r", "g">>,
        bounds |-> Box(598, 601, 300, 307)] >>

in_bounds(coords, bounds) ==
    /\ Leq(bounds.lat[1], coords[1]) /\ Leq(coords[1], bounds.lat[2])
    /\ Leq(bounds.lon[1], coords[2]) /\ Leq(coords[2], bounds.lon[2])

\* Mutant of validate_coords_in_city: every location is accepted.
validate_always(coords, city_name) == TRUE

\* _validate_coords_in_city: the first key of the table that occurs in the
\* lowered city name decides; a city the table does not know accepts anything.
validate_coords_in_city(coords, city_name) ==
    LET normalized_city == strip(lower(city_name))
        hits == { i \in 1..Len(city_bounds) : is_substring(city_bounds[i].key, normalized_city) }
    IN  IF hits = {} THEN TRUE
        ELSE in_bounds(coords, city_bounds[CHOOSE i \in hits : \A j \in hits : i <= j].bounds)

\* What one geocoder.geocode call can do: raise, return None, or return a
\* location: inside the Volgograd box, on its corner, or in Moscow.
GeoPoints == { <<Num(487, 10), Num(445, 10)>>, <<Num(490, 10), Num(450, 10)>>,
               <<Num(557, 10), Num(376, 10)>> }
GeoResponses ==
    {[kind |-> "raises", coords |-> NoCoords], [kind |-> "none", coords |-> NoCoords]}
        \cup {[kind |-> "location", coords |-> p] : p \in GeoPoints}

\* The addresses and cities address_to_coords is called with.
Addresses ==
    { <<>>, <<" ", " ">>,
      <<"4", "8", ".", "7", ",", " ", "4", "4", ".", "5">>,
      <<" ", "-", "9", "0", ",", "1", "8", "0", " ">>,
      <<"9", "1", ",", " ", "1", "0">>,
      <<"1", ",", "2", ",", "3">>,
      <<"5", ",">>,
      <<"L", " ", "1">> }

Volgograd == <<"V", "o", "l", "g", "o", "g", "r", "a", "d">>
GeoCities == { <<>>, Volgograd \o CommaSpace \o Russia, <<" ", "O", "m", "s", "k">> }

IdleGeo ==
    [ pc |-> "idle", started |-> 0,
      address_arg |-> <<>>, city_arg |-> <<>>,   \* the arguments
      address |-> <<>>, city_name |-> <<>>,      \* the locals of the same names
      search_variants |-> <<>>,
      gi |-> 1, vi |-> 1,                        \* position of the two loops
      ret |-> [kind |-> "none", coords |-> NoCoords],
      exc |-> NoExc,
      log |-> <<>> ]                             \* the geocode calls made and their answers

\* Lines 138-173: no address gives None, a coordinate pair is returned as it
\* is, anything else starts the provider loop.
address_to_coords(a, c) ==
    /\ geo.pc \in Resting
    /\ geo.started < MaxGeoCalls
    /\ LET g == [IdleGeo EXCEPT !.started = geo.started + 1, !.address_arg = a, !.city_arg = c]
           address == strip(a)
           parsed == parse_coords(address)
       IN  geo' =
             IF a = <<>> \/ address = <<>>
             THEN [g EXCEPT !.pc = "returned", !.ret = [kind |-> "null", coords |-> NoCoords]]
             ELSE IF parsed.ok
             THEN [g EXCEPT !.pc = "returned", !.address = address,
                            !.ret = [kind |-> "coords", coords |-> parsed.coords]]
             ELSE [g EXCEPT !.pc = "loop", !.address = address,
                            !.city_name = local_city_name(c),
                            !.search_variants = search_variants_of(address, c)]
    /\ UNCHANGED << redis, ping_failed, redis_store, files, progress_callbacks, received,
                    clock, frame, calls, last_dumped >>

\* `continue`, or the end of both loops and line 196.
next_candidate(g) ==
    IF g.vi < Len(g.search_variants) THEN [g EXCEPT !.vi = @ + 1]
    ELSE IF g.gi < Len(geolocators) THEN [g EXCEPT !.gi = @ + 1, !.vi = 1]
    ELSE [g EXCEPT !.pc = "returned", !.ret = [kind |-> "null", coords |-> NoCoords]]

\* Mutant of geocode_failed: the exception leaves address_to_coords.
geocode_failed_propagates(g) ==
    [g EXCEPT !.pc = "raised", !.exc = [type |-> "GeocoderServiceError", msg |-> <<>>]]

\* Lines 191-193: the exception of a provider call is logged and the loop goes on.
geocode_failed(g) == next_candidate(g)

\* Lines 180-190: a location is returned unless a city was given and the
\* location fails its validation.
geocode_answered(g, coords) ==
    IF g.city_name # <<>> /\ ~validate_coords_in_city(coords, g.city_name)
    THEN next_candidate(g)
    ELSE [g EXCEPT !.pc = "returned", !.ret = [kind |-> "coords", coords |-> coords]]

\* Lines 175-193: one geocoder.geocode call and what follows from its answer.
Geocode ==
    /\ geo.pc = "loop"
    /\ \E response \in GeoResponses :
         LET g == [geo EXCEPT !.log = Append(@,
                      [ provider |-> geolocators[geo.gi], variant |-> geo.vi,
                        query |-> geo.search_variants[geo.vi], response |-> response ])]
         IN  geo' = CASE response.kind = "raises" -> geocode_failed(g)
                      [] response.kind = "none" -> next_candidate(g)
                      [] response.kind = "location" -> geocode_answered(g, response.coords)
    /\ UNCHANGED << redis, ping_failed, redis_store, files, progress_callbacks, received,
                    clock, frame, calls, last_dumped >>

\* ----------------------------------------------------------- app.py handlers

\* A request's thread is free when it has no request or has answered it.
Free(t) == frame[t].pc = "idle" \/ frame[t].status # 0

\* get_city_data(city, network_type=..., simplify=...) as the handlers call it:
\* app.py line 9 takes DataService from a module `data_service` whose
\* get_city_data accepts the two keywords; the lookup is that of lines 46-70 of
\* graph_service.py, which has no use for them.
called_with(c, network_type, simplify) == entered(c)

\* get_city, lines 48-59: a fresh list, an observer that appends to it, its
\* registration on the shared service, and the call.
get_city(t, c) ==
    /\ Free(t)
    /\ calls < MaxCalls
    /\ Registered < MaxCallbacks
    /\ calls' = calls + 1
    /\ progress_callbacks' =
          Append(progress_callbacks, [id |-> Registered + 1, fails_on |-> Collector])
    /\ \E network_type \in NetworkTypes, simplify \in BOOLEAN :
         frame' = [frame EXCEPT ![t] =
            [ called_with(c, network_type, simplify) EXCEPT
                !.endpoint = "city", !.observer = Registered + 1 ]]
    /\ UNCHANGED << redis, ping_failed, redis_store, files, received, clock, last_dumped, geo >>

\* get_city, lines 60-71: the bundle's name and stats with the collected events,
\* or status 500 with the exception's message.
city_response(t) ==
    /\ frame[t].endpoint = "city" /\ frame[t].status = 0
    /\ frame[t].pc \in {"returned", "raised"}
    /\ frame' = [frame EXCEPT ![t] =
          IF frame[t].pc = "returned"
          THEN [@ EXCEPT !.status = 200, !.progress = received[frame[t].observer]]
          ELSE [@ EXCEPT !.status = 500, !.detail = frame[t].exc.msg]]
    /\ UNCHANGED << redis, ping_failed, redis_store, files, progress_callbacks, received,
                    clock, calls, last_dumped, geo >>

\* graph_geojson, lines 80-82: the call.
graph_geojson(t, c) ==
    /\ Free(t)
    /\ calls < MaxCalls
    /\ calls' = calls + 1
    /\ \E network_type \in NetworkTypes, simplify \in BOOLEAN :
         frame' = [frame EXCEPT ![t] =
            [ called_with(c, network_type, simplify) EXCEPT
                !.endpoint = "graph" ]]
    /\ UNCHANGED << redis, ping_failed, redis_store, files, progress_callbacks, received,
                    clock, last_dumped, geo >>

\* data.get("road_graph"): None when the bundle has no such entry.
get_road_graph(data) == IF "road_graph" \in DOMAIN data THEN data.road_graph ELSE None

\* graph_geojson, lines 83-104: status 404 when the bundle has no graph, the
\* edges as GeoJSON otherwise; an HTTPException passes, any other exception
\* becomes status 500 with its message.
graph_response(t) ==
    /\ frame[t].endpoint = "graph" /\ frame[t].status = 0
    /\ frame[t].pc \in {"returned", "raised"}
    /\ frame' = [frame EXCEPT ![t] =
          IF frame[t].pc = "raised"
          THEN [@ EXCEPT !.status = 500, !.detail = frame[t].exc.msg]
          ELSE IF get_road_graph(frame[t].ret) = None
          THEN [@ EXCEPT !.status = 404, !.detail = <<"graph not found">>]
          ELSE [@ EXCEPT !.status = 200]]
    /\ UNCHANGED << redis, ping_failed, redis_store, files, progress_callbacks, received,
                    clock, calls, last_dumped, geo >>

\* ----------------------------------------------------------- specifications

Next ==
    \/ \E t \in Threads : add_progress_callback(t, Collector)
    \/ \E t \in Threads, c \in CityNames : get_city_data(t, c)
    \/ \E t \in Threads : TryRedis(t)
    \/ \E t \in Threads : CheckCacheFile(t)
    \/ \E t \in Threads : load_from_cache(t)
    \/ \E t \in Threads : load_from_cache_except(t)
    \/ \E t \in Threads : RemoveCacheFile(t)
    \/ \E t \in Threads : FetchRoadGraph(t)
    \/ \E t \in Threads : FetchBuildings(t)
    \/ \E t \in Threads : OpenCacheFile(t)
    \/ \E t \in Threads : DumpCacheFile(t)
    \/ \E t \in Threads : SaveToRedis(t)
    \/ \E t \in Threads : FinishDownload(t)
    \/ \E t \in Threads : DownloadExcept(t)

\* One caller: every call runs to its end before the next starts.
Init == InitCache({1}) /\ geo = IdleGeo
Spec == Init /\ [][Next]_vars

\* Two request threads share the DataService and start from empty caches;
\* their steps interleave.
InitConc ==
    /\ InitCache({1, 2})
    /\ redis_store = [k \in Keys |-> Absent]
    /\ files = [p \in Paths |-> Absent]
    /\ geo = IdleGeo
SpecConc == InitConc /\ [][Next]_vars

\* Two requests to the HTTP handlers of app.py, each on its own worker thread,
\* share the one DataService of line 25 and start from empty caches.
NextApp ==
    \/ \E t \in Threads, c \in CityNames : get_city(t, c)
    \/ \E t \in Threads : city_response(t)
    \/ \E t \in Threads, c \in CityNames : graph_geojson(t, c)
    \/ \E t \in Threads : graph_response(t)
    \/ \E t \in Threads : TryRedis(t)
    \/ \E t \in Threads : CheckCacheFile(t)
    \/ \E t \in Threads : load_from_cache(t)
    \/ \E t \in Threads : load_from_cache_except(t)
    \/ \E t \in Threads : RemoveCacheFile(t)
    \/ \E t \in Threads : FetchRoadGraph(t)
    \/ \E t \in Threads : FetchBuildings(t)
    \/ \E t \in Threads : OpenCacheFile(t)
    \/ \E t \in Threads : DumpCacheFile(t)
    \/ \E t \in Threads : SaveToRedis(t)
    \/ \E t \in Threads : FinishDownload(t)
    \/ \E t \in Threads : DownloadExcept(t)
SpecApp == InitConc /\ [][NextApp]_vars

\* Two threads that ask for names with one sanitized key, observed by nobody,
\* starting from empty caches.
NextShared ==
    \/ \E t \in Threads, c \in SharedKeyNames : get_city_data(t, c)
    \/ \E t \in Threads : TryRedis(t)
    \/ \E t \in Threads : CheckCacheFile(t)
    \/ \E t \in Threads : load_from_cache(t)
    \/ \E t \in Threads : load_from_cache_except(t)
    \/ \E t \in Threads : RemoveCacheFile(t)
    \/ \E t \in Threads : FetchRoadGraph(t)
    \/ \E t \in Threads : FetchBuildings(t)
    \/ \E t \in Threads : OpenCacheFile(t)
    \/ \E t \in Threads : DumpCacheFile(t)
    \/ \E t \in Threads : SaveToRedis(t)
    \/ \E t \in Threads : FinishDownload(t)
    \/ \E t \in Threads : DownloadExcept(t)
SpecShared == InitConc /\ [][NextShared]_vars

\* A cache entry left by an earlier run of the service for the name c.
cached_bundle(c) == make_bundle(G1, {}, get_no_fly_zones(strip(c)), strip(c), 0)

\* One caller and observers of every kind. The service has been up for a
\* while: one observer is registered, the earlier calls are over and may have
\* left the entry of one city in either tier (the local one possibly damaged
\* since); one call remains to be made.
NextObs ==
    \/ \E t \in Threads, k \in FailureKinds : add_progress_callback(t, k)
    \/ \E t \in Threads, c \in CityNames : get_city_data(t, c)
    \/ \E t \in Threads : TryRedis(t)
    \/ \E t \in Threads : CheckCacheFile(t)
    \/ \E t \in Threads : load_from_cache(t)
    \/ \E t \in Threads : load_from_cache_except(t)
    \/ \E t \in Threads : RemoveCacheFile(t)
    \/ \E t \in Threads : FetchRoadGraph(t)
    \/ \E t \in Threads : FetchBuildings(t)
    \/ \E t \in Threads : OpenCacheFile(t)
    \/ \E t \in Threads : DumpCacheFile(t)
    \/ \E t \in Threads : SaveToRedis(t)
    \/ \E t \in Threads : FinishDownload(t)
    \/ \E t \in Threads : DownloadExcept(t)
InitObs ==
    /\ redis \in {"None", "conn"}
    /\ ping_failed = (redis = "None")
    /\ \E held \in BOOLEAN :
         redis_store = [k \in Keys |-> IF held /\ redis # "None" /\ k = redis_key_of(strip(ObsCity))
                                       THEN Holding(pickle_dumps(cached_bundle(ObsCity)))
                                       ELSE Absent]
    /\ \E left \in {Absent, Holding(CorruptContent),
                      Holding(pickle_dumps(cached_bundle(ObsCity)))} :
         files = [p \in Paths |-> IF p = cache_file_of(strip(ObsCity)) THEN left ELSE Absent]
    /\ \E k \in FailureKinds : progress_callbacks = <<[id |-> 0, fails_on |-> k]>>
    /\ received = [o \in Observers |-> <<>>]
    /\ clock = 1
    /\ frame = [t \in {1} |-> IdleFrame]
    /\ calls = MaxCalls - 1
    /\ last_dumped = [p \in Paths |-> [valid |-> FALSE, bundle |-> NoBundle, dumped |-> {}]]
    /\ geo = IdleGeo
SpecObs == InitObs /\ [][NextObs]_vars

\* The geocoding chain on its own: it shares no state with the cache.
InitGeo ==
    /\ InitCache({1})
    /\ redis = "None"
    /\ redis_store = [k \in Keys |-> Absent]
    /\ files = [p \in Paths |-> Absent]
    /\ geo = IdleGeo
NextGeo ==
    \/ \E a \in Addresses, c \in GeoCities : address_to_coords(a, c)
    \/ Geocode
SpecGeo == InitGeo /\ [][NextGeo]_vars

\* ------------------------------------------------------------------ claims

Finished(f) == f.op = "get_city_data" /\ f.pc \in {"returned", "raised"}

\* The sanitized key of each city name of the model, worked out by hand from the
\* rule "non-word characters stripped, whitespace and hyphens collapsed to
\* underscores".
ExpectedKey(c) ==
    CASE c = <<" ", "a", "b">> -> <<"a", "b">>
      [] c = <<"a", "-", "b">> -> <<"a", "_", "b">>
      [] c = <<"a", " ", "b", "!">> -> <<"a", "_", "b">>

ExpectedPath(c) == <<"cache_data/">> \o ExpectedKey(c) \o <<".pkl">>
ExpectedRedisKey(c) == <<"drone_planner:city:">> \o ExpectedKey(c)

\* C1: a get_city_data call whose local cache file failed to deserialize ends
\* with the corrupt file gone and the fetch path invoked exactly once, and it
\* returns the fetched bundle; it raises only if the fetch itself failed.
C1_CorruptFileRefetched ==
    \A t \in Threads :
        LET f == frame[t]
        IN  (Finished(f) /\ f.load_failed) =>
                /\ f.downloads = 1
                /\ files[f.cache_file].content # CorruptContent
                /\ \/ f.pc = "returned" /\ f.source = "download" /\ f.ret = f.data
                   \/ f.pc = "raised" /\ f.exc = RoadNetworkError(f.normalized_name)

\* C2: two concurrent get_city_data calls for the same city, started while
\* neither tier held it and with the road-network source answering both, both
\* return a bundle, and the bundles agree on city_name and, when the source gave
\* both the same graph and buildings, on stats.
C2_ConcurrentColdCallsBothReturn ==
    (/\ Threads = {1, 2}
     /\ Finished(frame[1]) /\ Finished(frame[2])
     /\ frame[1].city_name = frame[2].city_name
     /\ frame[1].cold /\ frame[2].cold
     /\ \A t \in Threads : frame[t].downloads > 0 => ~no_road_graph(frame[t].graph_outcome))
    => /\ frame[1].pc = "returned" /\ frame[2].pc = "returned"
       /\ frame[1].ret.city_name = frame[2].ret.city_name
       /\ (/\ frame[1].ret.road_graph = frame[2].ret.road_graph
           /\ frame[1].ret.buildings = frame[2].ret.buildings)
          => frame[1].ret.stats = frame[2].ret.stats

\* C3: when the shared store is enabled and the read of the city's key gives a
\* blob that deserializes, the call has returned that bundle, its only progress
\* event is ("cache", 100), and it has touched neither local storage nor the
\* fetch path.
C3_RedisHitReturnsAtOnce ==
    \A t \in Threads :
        LET f == frame[t]
        IN  (f.op = "get_city_data" /\ pickle_ok(f.redis_blob)) =>
                /\ redis_enabled
                /\ f.pc = "returned"
                /\ redis_store[ExpectedRedisKey(f.city_name)].content = pickle_dumps(f.ret)
                /\ Len(f.events) = 1
                /\ f.events[1].stage = "cache" /\ f.events[1].percentage = 100
                /\ f.disk_ops = 0
                /\ f.downloads = 0

C3_Witness ==
    \E t \in Threads :
        frame[t].pc = "returned" /\ frame[t].source = "redis" /\ pickle_ok(frame[t].redis_blob)

\* C4: when get_city_data has returned from a fetch whose shared-store write
\* succeeded, the local file of the city's sanitized name and the key
\* drone_planner:city:<sanitized name> both hold exactly the returned bundle.
C4_FetchPopulatesBothTiers ==
    \A t \in Threads :
        LET f == frame[t]
            file == files[ExpectedPath(f.city_name)]
            entry == redis_store[ExpectedRedisKey(f.city_name)]
        IN  (f.pc = "returned" /\ f.source = "download" /\ redis_enabled /\ f.redis_saved) =>
                /\ ExpectedPath(f.city_name) \in DOMAIN files
                /\ ExpectedRedisKey(f.city_name) \in DOMAIN redis_store
                /\ file.exists /\ pickle_ok(file.content) /\ pickle_loads(file.content) = f.ret
                /\ entry.exists /\ pickle_ok(entry.content) /\ pickle_loads(entry.content) = f.ret

C4_Witness ==
    \E t \in Threads :
        /\ frame[t].pc = "returned" /\ frame[t].source = "download" /\ frame[t].redis_saved
        /\ frame[t].ret.stats.nodes = 3

\* C5: a get_city_data call served from local storage has performed no fetch,
\* and the bundle it returns has the stats and the city_name of the bundle a
\* fetch last wrote to that file.
C5_LocalRoundTrip ==
    \A t \in Threads :
        LET f == frame[t]
            written == last_dumped[ExpectedPath(f.city_name)]
        IN  (f.pc = "returned" /\ f.source = "disk") =>
                /\ f.downloads = 0
                /\ written.valid
                /\ f.ret.stats = written.bundle.stats
                /\ f.ret.city_name = written.bundle.city_name

C5_Witness ==
    \E t \in Threads :
        /\ frame[t].pc = "returned" /\ frame[t].source = "disk"
        /\ frame[t].ret.stats.buildings = 2

\* C6: when the road-network call raised or returned a graph without nodes, the
\* fetch returns no bundle; once it has ended, it has raised an error whose
\* message names the city, its last progress event is ("error", 0), and both
\* cache tiers are as they were when the fetch began.
C6_NoRoadGraphAborts ==
    \A t \in Threads :
        LET f == frame[t]
            o == f.graph_outcome
        IN  (f.downloads > 0 /\ (o.raises \/ Cardinality(o.graph.nodes) = 0)) =>
                /\ f.pc \in {"download_except", "raised"}
                /\ f.ret = NoBundle
                /\ files = f.before.files
                /\ redis_store = f.before.redis_store
                /\ f.pc = "raised" =>
                     /\ f.exc.type = "Exception"
                     /\ SubSeq(f.exc.msg, 2, Len(f.exc.msg)) = strip(f.city_name)
                     /\ f.events[Len(f.events)].stage = "error"
                     /\ f.events[Len(f.events)].percentage = 0

C6_Witness ==
    \E t \in Threads :
        /\ frame[t].pc = "raised" /\ frame[t].downloads = 1
        /\ ~frame[t].graph_outcome.raises

\* C10: when the shared store could not be reached at construction, _redis is
\* None in every state, no call performs a shared-store operation, and the
\* shared store holds no bundle of this process.
C10_RedisStaysDisabled ==
    ping_failed =>
        /\ redis = "None"
        /\ \A t \in Threads : frame[t].redis_ops = 0
        /\ \A k \in Keys : ~pickle_ok(redis_store[k].content)

C10_Witness ==
    /\ ping_failed
    /\ \E t \in Threads : frame[t].pc = "returned" /\ frame[t].source = "disk"

\* The order address_to_coords is to try its candidates in: every variant with
\* the first provider, then every variant with the second.
CandidateCount == Len(geolocators) * 4
ExpectedProvider(i) == IF i <= 4 THEN "nominatim" ELSE "nominatim_ru"
ExpectedVariant(i) == ((i - 1) % 4) + 1

\* Whether coordinates lie in the box the table knows for the city argument:
\* latitude 48.5..49.0 and longitude 44.0..45.0 for Volgograd; no box is known
\* for the other city of the model.
InKnownBox(city_arg, coords) ==
    IF city_arg = Volgograd \o CommaSpace \o Russia
    THEN /\ 485 * coords[1].den <= 10 * coords[1].num /\ 10 * coords[1].num <= 490 * coords[1].den
         /\ 440 * coords[2].den <= 10 * coords[2].num /\ 10 * coords[2].num <= 450 * coords[2].den
    ELSE TRUE

Accepted(city_arg, entry) ==
    entry.response.kind = "location" /\ InKnownBox(city_arg, entry.response.coords)

\* C7: with a city given, the provider calls made so far are the first
\* candidates of the fixed order (providers in configured order, variants in
\* list order within each); no call but the last has given a location inside
\* the known box of the city; a returned pair is the answer of the last call and
\* lies inside the box; null is returned only after every candidate was tried
\* and none gave a location inside the box.
C7_FirstValidatedResult ==
    (geo.city_arg # <<>> /\ geo.search_variants # <<>>) =>
        LET n == Len(geo.log)
        IN  /\ n <= CandidateCount
            /\ \A i \in 1..n :
                 /\ geo.log[i].provider = ExpectedProvider(i)
                 /\ geo.log[i].variant = ExpectedVariant(i)
                 /\ geo.log[i].query = geo.search_variants[ExpectedVariant(i)]
            /\ \A i \in 1..(n - 1) : ~Accepted(geo.city_arg, geo.log[i])
            /\ geo.pc = "loop" => (n < CandidateCount /\ (n > 0 => ~Accepted(geo.city_arg, geo.log[n])))
            /\ geo.pc \in {"loop", "returned"}
            /\ (geo.pc = "returned" /\ geo.ret.kind = "coords") =>
                 /\ n > 0
                 /\ Accepted(geo.city_arg, geo.log[n])
                 /\ geo.ret.coords = geo.log[n].response.coords
            /\ (geo.pc = "returned" /\ geo.ret.kind # "coords") =>
                 /\ geo.ret.kind = "null"
                 /\ n = CandidateCount
                 /\ ~Accepted(geo.city_arg, geo.log[n])

C7_Witness ==
    /\ geo.city_arg = Volgograd \o CommaSpace \o Russia
    /\ geo.pc = "returned" /\ geo.ret.kind = "coords"
    /\ Len(geo.log) = 6
    /\ geo.log[2].response.kind = "location"
    /\ geo.log[3].response.kind = "raises"

\* C8: no exception of a provider call leaves address_to_coords, a call that
\* raised is followed by the next candidate, and when every call made has
\* raised or returned nothing the call is still running with candidates left
\* or has returned null after the full count of providers x variants calls.
C8_ProviderErrorsNotFatal ==
    LET n == Len(geo.log)
    IN  /\ geo.pc # "raised"
        /\ geo.exc = NoExc
        /\ n <= CandidateCount
        /\ (n > 0 /\ \A i \in 1..n : geo.log[i].response.kind \in {"raises", "none"}) =>
             \/ geo.pc = "loop" /\ n < CandidateCount
                  /\ geo.gi = ((n) \div 4) + 1 /\ geo.vi = (n % 4) + 1
             \/ geo.pc = "returned" /\ geo.ret.kind = "null" /\ n = CandidateCount

C8_Witness ==
    /\ geo.pc = "returned" /\ geo.ret.kind = "null"
    /\ Len(geo.log) = CandidateCount
    /\ \A i \in 1..Len(geo.log) : geo.log[i].response.kind = "raises"

\* The addresses of the model that consist of two comma-separated numbers, a
\* latitude in [-90, 90] and a longitude in [-180, 180], with the pair each
\* stands for.
CoordinateAddresses ==
    { <<"4", "8", ".", "7", ",", " ", "4", "4", ".", "5">>,
      <<" ", "-", "9", "0", ",", "1", "8", "0", " ">> }
ExpectedCoords(a) ==
    IF a = <<"4", "8", ".", "7", ",", " ", "4", "4", ".", "5">>
    THEN <<Num(487, 10), Num(445, 10)>>
    ELSE <<Num(-90, 1), Num(180, 1)>>

\* C9: a call whose address is two comma-separated numbers within the latitude
\* and longitude ranges has returned that pair and has called no geocoding
\* provider, whatever the city argument.
C9_CoordinatesReturnedDirectly ==
    (geo.started > 0 /\ geo.address_arg \in CoordinateAddresses) =>
        /\ geo.pc = "returned"
        /\ geo.ret.kind = "coords"
        /\ NumEq(geo.ret.coords[1], ExpectedCoords(geo.address_arg)[1])
        /\ NumEq(geo.ret.coords[2], ExpectedCoords(geo.address_arg)[2])
        /\ geo.log = <<>>

C9_Witness ==
    /\ geo.pc = "returned" /\ geo.ret.kind = "coords"
    /\ geo.address_arg = <<" ", "-", "9", "0", ",", "1", "8", "0", " ">>
    /\ geo.city_arg = Volgograd \o CommaSpace \o Russia
    /\ geo.log = <<>>

\* What ox.graph_from_place gave the call of f: no graph, or one without nodes.
NoGraphResolved(f) ==
    /\ f.downloads > 0
    /\ \/ f.graph_outcome.raises
       \/ f.graph_outcome.graph.nodes = {}

\* C11: every answered GET /api/graph request for whose city no road graph
\* could be resolved has status 404, and status 500 is given only to requests
\* that failed otherwise.
C11_NoGraphIsNotFound ==
    \A t \in Threads :
        LET f == frame[t]
        IN  (f.endpoint = "graph" /\ f.status # 0)
            => /\ NoGraphResolved(f) => f.status = 404
               /\ f.status = 500 => ~NoGraphResolved(f)

\* The percentages of the "download" events among evs, in order.
DownloadPercentages(evs) ==
    LET dl == SelectSeq(evs, LAMBDA e : e.stage = "download")
    IN  [i \in 1..Len(dl) |-> dl[i].percentage]

SixMilestones == <<0, 20, 50, 80, 90, 100>>

IsPrefix(s, w) == Len(s) <= Len(w) /\ s = SubSeq(w, 1, Len(s))

Member(x, s) == \E i \in 1..Len(s) : s[i] = x

\* C12: a fetch reports its milestones in the order 0, 20, 50, 80, 90, 100 and
\* a fetch that returns has reported exactly these six; until 90 is reported
\* neither tier has been written since the fetch began; once 100 is reported the
\* local file holds the bundle and, with the shared store enabled, the write to
\* it has returned or raised.
C12_FetchMilestones ==
    \A t \in Threads :
        LET f == frame[t]
            pcts == DownloadPercentages(f.events)
        IN  f.downloads > 0
            => /\ IsPrefix(pcts, SixMilestones)
               /\ (f.pc = "returned" /\ f.source = "download") => pcts = SixMilestones
               /\ ~Member(90, pcts)
                    => files = f.before.files /\ redis_store = f.before.redis_store
               /\ Member(100, pcts)
                    => /\ files[ExpectedPath(f.city_name)].exists
                       /\ pickle_ok(files[ExpectedPath(f.city_name)].content)
                       /\ pickle_loads(files[ExpectedPath(f.city_name)].content) = f.data
                       /\ (redis # "None") => (f.redis_saved \/ f.set_raised)

C12_Witness ==
    \E t \in Threads :
        /\ frame[t].pc = "returned" /\ frame[t].source = "download"
        /\ frame[t].redis_saved
        /\ DownloadPercentages(frame[t].events) = SixMilestones

\* C13: the list a GET /api/city request fills through the observer it
\* registered holds exactly the events of that request's own get_city_data
\* call, while the call runs and in the response.
C13_OwnEventsOnly ==
    \A t \in Threads :
        LET f == frame[t]
        IN  f.endpoint = "city"
            => /\ f.status = 0 => received[f.observer] = f.events
               /\ f.status = 200 => f.progress = f.events

\* C14: once an observer has raised during a notification of a get_city_data
\* call, the call goes on to nothing but the report of the error and ends by
\* raising the observer's exception to its caller.
C14_ObserverErrorPropagates ==
    \A t \in Threads :
        LET f == frame[t]
        IN  f.observer_raised
            => /\ f.pc \in {"download_except", "raised"}
               /\ f.pc = "raised" => f.exc.type = "ObserverError"

\* C15: a call of _update_progress invokes the registered observers once each,
\* in registration order, up to and including the first that raises on the
\* event; each invoked observer is given that event; the call raises exactly
\* when one of them does.
C15_ObserversInOrder ==
    \A t \in Threads :
        LET ln == frame[t].last_notify
            cbs == ln.callbacks
            raisers == { i \in 1..Len(cbs) :
                            <<ln.event.stage, ln.event.percentage>> \in cbs[i].fails_on }
            stop == IF raisers = {} THEN Len(cbs)
                    ELSE CHOOSE i \in raisers : \A j \in raisers : i <= j
        IN  ln.event.stage # "none"
            => /\ ln.invoked = [i \in 1..stop |-> cbs[i].id]
               /\ ln.raised = (raisers # {})
               /\ \A i \in 1..stop :
                    /\ received[cbs[i].id] # <<>>
                    /\ received[cbs[i].id][Len(received[cbs[i].id])] = ln.event

C15_Witness ==
    \E t \in Threads :
        LET ln == frame[t].last_notify
        IN  /\ Len(ln.callbacks) = 2
            /\ ln.raised
            /\ ln.invoked = <<ln.callbacks[1].id>>

\* C16: a fetch whose write to the shared store raised goes on to return: the
\* local file holds the bundle, no ("error", 0) event is reported, and the call
\* ends by reporting ("download", 100) and returning the bundle.
C16_RedisWriteFailureNotFatal ==
    \A t \in Threads :
        LET f == frame[t]
            path == ExpectedPath(f.city_name)
        IN  f.set_raised
            => /\ f.pc \in {"done", "returned"}
               /\ files[path].exists
               /\ pickle_ok(files[path].content)
               /\ pickle_loads(files[path].content) = f.data
               /\ \A i \in 1..Len(f.events) : f.events[i].stage # "error"
               /\ f.pc = "returned"
                    => /\ f.ret = f.data
                       /\ f.ret.stats.nodes > 0
                       /\ f.events[Len(f.events)].stage = "download"
                       /\ f.events[Len(f.events)].percentage = 100

C16_Witness ==
    \E t \in Threads :
        /\ frame[t].set_raised
        /\ frame[t].pc = "returned"
        /\ ~frame[t].redis_saved

\* The byte streams the two tiers hold.
StoredContents ==
    { files[p].content : p \in Paths } \cup { redis_store[k].content : k \in Keys }

\* C17: every bundle held by the local or the shared tier carries the node and
\* edge counts of its own road graph and the size of its own buildings
\* collection as its stats, and its road graph has at least one node.
C17_StoredStatsMatch ==
    \A content \in StoredContents :
        pickle_ok(content)
        => LET b == pickle_loads(content)
           IN  /\ b.stats.nodes = Cardinality(b.road_graph.nodes)
               /\ b.stats.edges = Cardinality(b.road_graph.edges)
               /\ b.stats.buildings = Cardinality(b.buildings)
               /\ Cardinality(b.road_graph.nodes) >= 1

C17_Witness ==
    \E p \in Paths, k \in Keys :
        /\ pickle_ok(files[p].content)
        /\ pickle_ok(redis_store[k].content)
        /\ pickle_loads(files[p].content).stats.buildings = 2
        /\ pickle_loads(redis_store[k].content).stats.nodes = 3

\* Each city name of the model without its leading and trailing whitespace,
\* written out by hand.
ExpectedStripped(c) ==
    CASE c = <<" ", "a", "b">> -> <<"a", "b">>
      [] c = <<"a", "-", "b">> -> <<"a", "-", "b">>
      [] c = <<"a", " ", "b", "!">> -> <<"a", " ", "b", "!">>

\* The stripped names of the model that share the sanitized key of c.
SameKeyNames(c) ==
    CASE c = <<" ", "a", "b">> -> { <<"a", "b">> }
      [] c = <<"a", "-", "b">> -> { <<"a", "-", "b">>, <<"a", " ", "b", "!">> }
      [] c = <<"a", " ", "b", "!">> -> { <<"a", "-", "b">>, <<"a", " ", "b", "!">> }

\* C18 as stated: the bundle a get_city_data(c) call returns has city_name
\* equal to c without its leading and trailing whitespace.
C18_OwnCityReturned ==
    \A t \in Threads :
        LET f == frame[t]
        IN  (f.op = "get_city_data" /\ f.pc = "returned")
            => f.ret.city_name = ExpectedStripped(f.city_name)

\* C18, amended: the bundle a get_city_data(c) call returns has the stripped
\* c as its city_name when the call fetched it; a bundle served from a cache
\* tier has the stripped form of some name with the sanitized key of c.
C18_SameKeyCityReturned ==
    \A t \in Threads :
        LET f == frame[t]
        IN  (f.op = "get_city_data" /\ f.pc = "returned")
            => /\ f.ret.city_name \in SameKeyNames(f.city_name)
               /\ f.source = "download" => f.ret.city_name = ExpectedStripped(f.city_name)

C18_Witness ==
    \E t \in Threads :
        /\ frame[t].op = "get_city_data" /\ frame[t].pc = "returned"
        /\ frame[t].source \in {"redis", "disk"}
        /\ frame[t].city_name = <<"a", " ", "b", "!">>
        /\ frame[t].ret.city_name = <<"a", "-", "b">>

\* C19: a ("cache", 100) event is the last event of its call, and a call that
\* has returned a bundle has reported either that one event alone or the six
\* "download" events and no "cache" event.
C19_CacheEventIsFinal ==
    \A t \in Threads :
        LET f == frame[t]
            stages == [i \in 1..Len(f.events) |-> f.events[i].stage]
        IN  /\ \A i \in 1..Len(f.events) : stages[i] = "cache" => i = Len(f.events)
            /\ (f.op = "get_city_data" /\ f.pc = "returned")
                 => \/ /\ Len(f.events) = 1
                       /\ stages[1] = "cache" /\ f.events[1].percentage = 100
                    \/ /\ stages = [i \in 1..6 |-> "download"]
                       /\ DownloadPercentages(f.events) = SixMilestones

AllFinished == \A t \in Threads : frame[t].pc \in Resting

====
